---- MODULE Spec2Model ----
(***************************************************************************)
(* Model of tickr's create_ticket instruction                              *)
(* (programs/tickr/src/instructions/create_ticket.rs).                      *)
(*                                                                         *)
(* The handler CreateTicket::create_ticket runs inside one ledger          *)
(* transaction.  Every statement of the handler that can return early is   *)
(* one step of the transaction; the steps work on the transaction's copy   *)
(* of the accounts (work), and the ledger keeps that copy only when the    *)
(* handler returns Ok.  The two cross-program calls (system transfer and   *)
(* mpl-core CreateV2) are modelled by their effect on the accounts the     *)
(* handler passes to them.                                                 *)
(*                                                                         *)
(* Strings whose content the handler converts (parse, to_lowercase,        *)
(* to_string) are sequences of one-character strings.  A u32 is a pair     *)
(* <<hi, lo>> of 16-bit limbs, so that the full 32-bit range is kept.      *)
(***************************************************************************)
EXTENDS Integers, Sequences, FiniteSets, TLC

VARIABLES ledger, pc, args, local, work, pre, post, result, calls

vars == <<ledger, pc, args, local, work, pre, post, result, calls>>

(***************************************************************************)
(* Bounds of the model.                                                    *)
(***************************************************************************)
\* number of issuance transactions submitted against the collection
NumTx == 2
\* largest rent the asset-creation call charges the payer for the new account
MaxRent == 1

Txs == 1..NumTx

(***************************************************************************)
(* u32 arithmetic on 16-bit limbs.                                         *)
(***************************************************************************)
LimbBase == 2^16

U32(n) == <<n \div LimbBase, n % LimbBase>>

U32_MAX == <<LimbBase - 1, LimbBase - 1>>

None == [some |-> FALSE, val |-> <<>>]
Some(v) == [some |-> TRUE, val |-> v]

\* u32 `<`
U32Lt(a, b) == a[1] < b[1] \/ (a[1] = b[1] /\ a[2] < b[2])

\* u32::checked_add(1)
checked_add_1(v) ==
    IF v = U32_MAX THEN None
    ELSE IF v[2] = LimbBase - 1 THEN Some(<<v[1] + 1, 0>>)
    ELSE Some(<<v[1], v[2] + 1>>)

\* acc * 10 + d with overflow detection, as the checked digit loop of
\* u32::from_str does
MulAdd10(acc, d) ==
    LET t  == acc[2] * 10 + d
        h  == acc[1] * 10 + (t \div LimbBase)
    IN  IF h >= LimbBase THEN None ELSE Some(<<h, t % LimbBase>>)

Digits == {"0", "1", "2", "3", "4", "5", "6", "7", "8", "9"}

DigitVal(c) ==
    CASE c = "0" -> 0 [] c = "1" -> 1 [] c = "2" -> 2 [] c = "3" -> 3
      [] c = "4" -> 4 [] c = "5" -> 5 [] c = "6" -> 6 [] c = "7" -> 7
      [] c = "8" -> 8 [] c = "9" -> 9

DigitChar(d) ==
    CASE d = 0 -> "0" [] d = 1 -> "1" [] d = 2 -> "2" [] d = 3 -> "3"
      [] d = 4 -> "4" [] d = 5 -> "5" [] d = 6 -> "6" [] d = 7 -> "7"
      [] d = 8 -> "8" [] d = 9 -> "9"

RECURSIVE ParseDigits(_, _)
ParseDigits(s, acc) ==
    IF s = <<>> THEN Some(acc)
    ELSE IF Head(s) \notin Digits THEN None
    ELSE LET n == MulAdd10(acc, DigitVal(Head(s)))
         IN  IF n.some THEN ParseDigits(Tail(s), n.val) ELSE None

\* a parse that takes a leading "-" as it takes a leading "+"
parse_u32_any_sign(s) ==
    IF s = <<>> THEN None
    ELSE LET digits == IF Head(s) \in {"+", "-"} THEN Tail(s) ELSE s
         IN  IF digits = <<>> THEN None ELSE ParseDigits(digits, <<0, 0>>)

\* str::parse::<u32>(): an optional leading "+", then at least one decimal
\* digit, nothing else; None for every ParseIntError
parse_u32(s) ==
    IF s = <<>> THEN None
    ELSE LET digits == IF Head(s) = "+" THEN Tail(s) ELSE s
         IN  IF digits = <<>> THEN None ELSE ParseDigits(digits, <<0, 0>>)

\* u32::to_string(): decimal, no sign, no leading zeros
RECURSIVE U32Digits(_)
U32Digits(v) ==
    LET t == (v[1] % 10) * LimbBase + v[2]
        q == <<v[1] \div 10, t \div 10>>
    IN  IF q = <<0, 0>> THEN <<DigitChar(t % 10)>>
        ELSE Append(U32Digits(q), DigitChar(t % 10))
u32_to_string(v) == U32Digits(v)

\* u64::to_string() of a price
RECURSIVE NatDigits(_)
NatDigits(n) ==
    IF n < 10 THEN <<DigitChar(n)>>
    ELSE Append(NatDigits(n \div 10), DigitChar(n % 10))
u64_to_string(n) == NatDigits(n)

\* str::to_lowercase() on the characters the model uses
LowerChar(c) ==
    CASE c = "T" -> "t" [] c = "R" -> "r" [] c = "U" -> "u" [] c = "E" -> "e"
      [] c = "F" -> "f" [] c = "A" -> "a" [] c = "L" -> "l" [] c = "S" -> "s"
      [] OTHER -> c
to_lowercase(s) == [i \in 1..Len(s) |-> LowerChar(s[i])]

(***************************************************************************)
(* Accounts and inputs.                                                    *)
(***************************************************************************)
Buyers == {"alice", "bob"}
Treasury == "treasury"
Accounts == Buyers \cup {Treasury}

Attribute(k, v) == [key |-> k, value |-> v]

\* Capacity values found on collections: well-formed, padded, signed,
\* zero, empty, non-numeric, and one past the u32 range
CapacityValues ==
    { <<"2">>, <<"0", "2">>, <<"+", "2">>, <<"0">>, <<>>, <<"x">>,
      <<"-", "1">>, <<"2", " ">>, <<"+">>,
      <<"4", "2", "9", "4", "9", "6", "7", "2", "9", "6">> }

TransferableValues ==
    { <<"t", "r", "u", "e">>, <<"T", "R", "U", "E">>, <<"T", "r", "u", "e">>,
      <<"f", "a", "l", "s", "e">>, <<>>, <<"t", "r", "u", "e", " ">> }

True == <<"t", "r", "u", "e">>

\* the event account: whether its data decodes as a BaseCollectionV1, the
\* decoded num_minted, and its Attributes plugin (if any)
EventAccount(valid, nm, has, list) ==
    [valid |-> valid, num_minted |-> nm, has_attributes |-> has,
     attribute_list |-> list]

Events ==
    \* every Capacity value, with one slot left of 2, none, and one past
    { EventAccount(TRUE, nm,
        TRUE, << Attribute("Capacity", c),
                 Attribute("IsTicketTransferable", True) >>)
        : nm \in {U32(1), U32(2), U32(3)}, c \in CapacityValues }
    \cup
    \* an empty collection of capacity 2
    { EventAccount(TRUE, U32(0),
        TRUE, << Attribute("Capacity", <<"2">>),
                 Attribute("IsTicketTransferable", True) >>) }
    \cup
    \* the top of the u32 range
    { EventAccount(TRUE, nm,
        TRUE, << Attribute("Capacity",
                    <<"4", "2", "9", "4", "9", "6", "7", "2", "9", "5">>) >>)
        : nm \in {<<LimbBase - 1, LimbBase - 2>>, U32_MAX} }
    \cup
    \* every transferability value, one slot left
    { EventAccount(TRUE, U32(1),
        TRUE, << Attribute("IsTicketTransferable", v),
                 Attribute("Capacity", <<"2">>) >>)
        : v \in TransferableValues }
    \cup
    \* missing, misspelt and repeated attributes
    { EventAccount(TRUE, nm, TRUE, list) :
        nm \in {U32(1), U32(2)},
        list \in { << Attribute("Capacity", <<"2">>) >>,
                   << Attribute("IsTicketTransferable", True) >>,
                   << Attribute("capacity", <<"2">>) >>,
                   << >>,
                   << Attribute("Capacity", <<"1">>),
                      Attribute("Capacity", <<"3">>) >> } }
    \cup
    { EventAccount(TRUE, nm,
        TRUE, << Attribute("Capacity", <<"3">>),
                 Attribute("IsTicketTransferable", <<"1">>),
                 Attribute("IsTicketTransferable", True) >>)
        : nm \in {U32(2), U32(3)} }
    \cup
    \* no Attributes plugin; not a collection account
    { EventAccount(TRUE, U32(1), FALSE, << >>),
      EventAccount(FALSE, U32(0), FALSE, << >>) }

CreateTicketArgs(payer, price, row, seat, screen, venue) ==
    [payer |-> payer, name |-> "name", uri |-> "uri", price |-> price,
     venue_authority |-> venue, screen |-> screen, row |-> row, seat |-> seat]

\* the instruction's inputs: the account that varies (the payer) and the
\* CreateTicketArgs
ArgSpace ==
    { CreateTicketArgs("alice", 0, None, None, None, "venue2"),
      CreateTicketArgs("bob", 7, None, None, None, "venue1") }
    \cup
    { CreateTicketArgs("alice", 500, row, seat, screen, "venue1")
        : row \in {None, Some(<<"A">>)},
          seat \in {None, Some(<<"1", "4">>)},
          screen \in {None, Some(<<>>)} }

NoArgs == [payer |-> "", name |-> "", uri |-> "", price |-> 0,
           venue_authority |-> "", screen |-> None, row |-> None, seat |-> None]

NoAttribute == Attribute("", <<>>)

NoLocal ==
    [base |-> [num_minted |-> <<0, 0>>],
     collection_attribute_list |-> << >>,
     capacity_attribute |-> NoAttribute,
     capacity |-> <<0, 0>>,
     ticket_plugin |-> << >>,
     ticket_external_plugin |-> << >>]

InitLedger(ev) ==
    [lamports |-> [a \in Accounts |->
                     IF a = "alice" THEN 510 ELSE IF a = "bob" THEN 3 ELSE 100],
     event    |-> ev,
     manager  |-> [bump |-> 255],
     marketplace |-> [name |-> "market", bump |-> 254, treasury_bump |-> 253],
     assets   |-> {}]

Init ==
    /\ \E ev \in Events : ledger = InitLedger(ev)
    /\ pc = [t \in Txs |-> "pending"]
    /\ args = [t \in Txs |-> NoArgs]
    /\ local = [t \in Txs |-> NoLocal]
    /\ work = [t \in Txs |-> ledger]
    /\ pre = [t \in Txs |-> ledger]
    /\ post = [t \in Txs |-> ledger]
    /\ result = [t \in Txs |-> "none"]
    /\ calls = [t \in Txs |-> << >>]

(***************************************************************************)
(* The handler's computations.                                             *)
(***************************************************************************)
\* the first attribute taken whatever its key
find_first(list, key) == IF list = << >> THEN None ELSE Some(list[1])

\* Iterator::find on an attribute list: index of the first attribute with
\* the key, 0 when there is none
RECURSIVE FindFrom(_, _, _)
FindFrom(list, key, i) ==
    IF i > Len(list) THEN 0
    ELSE IF list[i].key = key THEN i
    ELSE FindFrom(list, key, i + 1)

find(list, key) ==
    LET i == FindFrom(list, key, 1)
    IN  IF i = 0 THEN None ELSE Some(list[i])

\* the capacity check left out
CapacityAvailableUnchecked(num_minted, capacity) == TRUE

\* an off-by-one capacity check: `<=` for `<`
CapacityAvailableInclusive(num_minted, capacity) ==
    ~U32Lt(capacity, num_minted)

\* require!(base.num_minted < capacity, ...)
CapacityAvailable(num_minted, capacity) == U32Lt(num_minted, capacity)

\* the system program's transfer of `lamports` from `from` to `to`
SystemTransfer(w, from, to, lamports) ==
    IF w.lamports[from] >= lamports
    THEN [ok |-> TRUE,
          work |-> [w EXCEPT !.lamports[from] = @ - lamports,
                             !.lamports[to] = @ + lamports]]
    ELSE [ok |-> FALSE, work |-> w]

\* the payment with the price left out
TransferCpiUnpaid(w, a) == SystemTransfer(w, a.payer, Treasury, 0)

\* the payment with `from` and `to` exchanged
TransferCpiReversed(w, a) == SystemTransfer(w, Treasury, a.payer, a.price)

\* the payment: Transfer {from: payer, to: treasury} of args.price
TransferCpi(w, a) == SystemTransfer(w, a.payer, Treasury, a.price)

\* the ticket number without the increment
ticket_number_unincremented(base) == Some(base.num_minted)

\* base.num_minted.checked_add(1)
ticket_number(base) == checked_add_1(base.num_minted)

PluginAuthorityPair(plugin) ==
    [plugin |-> plugin, authority |-> Some("UpdateAuthority")]

\* the attribute list with Seat pushed before Row
TicketAttributesSeatFirst(number, a) ==
    << Attribute("Ticket Number", u32_to_string(number)),
       Attribute("Price", u64_to_string(a.price)) >>
    \o (IF a.seat.some THEN << Attribute("Seat", a.seat.val) >> ELSE << >>)
    \o (IF a.row.some THEN << Attribute("Row", a.row.val) >> ELSE << >>)
    \o (IF a.screen.some THEN << Attribute("Screen", a.screen.val) >> ELSE << >>)

\* the attribute list of the new ticket
TicketAttributes(number, a) ==
    << Attribute("Ticket Number", u32_to_string(number)),
       Attribute("Price", u64_to_string(a.price)) >>
    \o (IF a.row.some THEN << Attribute("Row", a.row.val) >> ELSE << >>)
    \o (IF a.seat.some THEN << Attribute("Seat", a.seat.val) >> ELSE << >>)
    \o (IF a.screen.some THEN << Attribute("Screen", a.screen.val) >> ELSE << >>)

\* the flag compared without to_lowercase()
is_ticket_transferable_exact(collection_attribute_list) ==
    LET attr == find(collection_attribute_list, "IsTicketTransferable")
    IN  IF attr.some THEN attr.val.value = <<"t", "r", "u", "e">> ELSE FALSE

is_ticket_transferable(collection_attribute_list) ==
    LET attr == find(collection_attribute_list, "IsTicketTransferable")
    IN  IF attr.some
        THEN to_lowercase(attr.val.value) = <<"t", "r", "u", "e">>
        ELSE FALSE

\* burn and transfer delegates attached only to transferable tickets
DelegatePluginsConditional(collection_attribute_list) ==
    << PluginAuthorityPair([type |-> "PermanentFreezeDelegate",
            frozen |-> ~is_ticket_transferable(collection_attribute_list)]) >>
    \o (IF is_ticket_transferable(collection_attribute_list)
        THEN << PluginAuthorityPair([type |-> "PermanentBurnDelegate"]),
                PluginAuthorityPair([type |-> "PermanentTransferDelegate"]) >>
        ELSE << >>)

DelegatePlugins(collection_attribute_list) ==
    << PluginAuthorityPair([type |-> "PermanentFreezeDelegate",
            frozen |-> ~is_ticket_transferable(collection_attribute_list)]),
       PluginAuthorityPair([type |-> "PermanentBurnDelegate"]),
       PluginAuthorityPair([type |-> "PermanentTransferDelegate"]) >>

\* the adapter with the update authority as data authority
AppDataInitInfoOwnAuthority(venue_authority) ==
    [type |-> "AppData",
     init_plugin_authority |-> Some("UpdateAuthority"),
     data_authority |-> [type |-> "UpdateAuthority"],
     schema |-> Some("Binary")]

AppDataInitInfo(venue_authority) ==
    [type |-> "AppData",
     init_plugin_authority |-> Some("UpdateAuthority"),
     data_authority |-> [type |-> "Address", address |-> venue_authority],
     schema |-> Some("Binary")]

\* mpl-core CreateV2 as the handler invokes it: the payer funds the new
\* asset account with `rent`, the asset is created as a child of the
\* collection with the plugins and adapters passed, and the collection's
\* num_minted grows by one.  `accept` is the external program's verdict on
\* everything the model does not hold (authority, name, uri, ...).
MplCoreCreateV2(w, asset, payer, owner, name, uri, plugins, adapters, rent, accept) ==
    LET next == checked_add_1(w.event.num_minted)
    IN  IF /\ accept
           /\ w.lamports[payer] >= rent
           /\ \A x \in w.assets : x.key # asset
           /\ next.some
        THEN [ok |-> TRUE,
              work |-> [w EXCEPT
                 !.lamports[payer] = @ - rent,
                 !.event.num_minted = next.val,
                 !.assets = @ \cup {[key |-> asset,
                                     owner |-> owner,
                                     collection |-> "event",
                                     name |-> name,
                                     uri |-> uri,
                                     lamports |-> rent,
                                     plugins |-> plugins,
                                     external_plugin_adapters |->
                                        [i \in 1..Len(adapters) |->
                                           [info |-> adapters[i], data |-> << >>]]]}]]
        ELSE [ok |-> FALSE, work |-> w]

\* the builder with the manager authority as owner of the ticket
CreateCpiOwnedByManager(w, asset, a, l, rent, accept) ==
    MplCoreCreateV2(w, asset, a.payer, "manager", a.name, a.uri,
                    l.ticket_plugin, l.ticket_external_plugin, rent, accept)

\* CreateV2CpiBuilder: asset = ticket, payer = payer, owner = payer, name,
\* uri, plugins and external plugin adapters as built
CreateCpi(w, asset, a, l, rent, accept) ==
    MplCoreCreateV2(w, asset, a.payer, a.payer, a.name, a.uri,
                    l.ticket_plugin, l.ticket_external_plugin, rent, accept)

\* the call's result dropped instead of propagated with `?`
CreateResultIgnored(cpi_ok) == "Ok"

\* what create_ticket returns after the CreateV2 call: `?` on the call's
\* result, then Ok(())
CreateResult(cpi_ok) == IF cpi_ok THEN "Ok" ELSE "CreateError"

(***************************************************************************)
(* The transaction.                                                        *)
(***************************************************************************)
Final == {"committed", "failed"}
Running(t) == pc[t] \notin ({"pending"} \cup Final)

\* the event account not locked for writing
MayLockShared(t) == TRUE

\* `event`, `payer` and `treasury` are #[account(mut)]: the ledger runs a
\* transaction only while no other transaction holds these accounts
MayLock(t) == \A u \in Txs \ {t} : ~Running(u)

Return(t, r) ==
    /\ pc' = [pc EXCEPT ![t] = "returned"]
    /\ result' = [result EXCEPT ![t] = r]

Goto(t, stage) ==
    /\ pc' = [pc EXCEPT ![t] = stage]
    /\ UNCHANGED result

\* the ledger schedules the transaction and loads its accounts; the
\* transactions are numbered in the order in which they are scheduled
Begin(t) ==
    /\ pc[t] = "pending"
    /\ \A u \in Txs : u < t => pc[u] # "pending"
    /\ MayLock(t)
    /\ \E a \in ArgSpace : args' = [args EXCEPT ![t] = a]
    /\ work' = [work EXCEPT ![t] = ledger]
    /\ pre' = [pre EXCEPT ![t] = ledger]
    /\ pc' = [pc EXCEPT ![t] = "deserialize"]
    /\ UNCHANGED <<ledger, local, post, result, calls>>

\* BaseCollectionV1::deserialize(&mut event_data)?
Deserialize(t) ==
    /\ pc[t] = "deserialize"
    /\ IF work[t].event.valid
       THEN /\ local' = [local EXCEPT ![t].base =
                            [num_minted |-> work[t].event.num_minted]]
            /\ Goto(t, "fetch_plugin")
       ELSE /\ Return(t, "DeserializeError")
            /\ UNCHANGED local
    /\ UNCHANGED <<ledger, args, work, pre, post, calls>>

\* fetch_plugin::<BaseCollectionV1, Attributes>(...)?
FetchPlugin(t) ==
    /\ pc[t] = "fetch_plugin"
    /\ IF work[t].event.has_attributes
       THEN /\ local' = [local EXCEPT ![t].collection_attribute_list =
                            work[t].event.attribute_list]
            /\ Goto(t, "find_capacity")
       ELSE /\ Return(t, "PluginNotFound")
            /\ UNCHANGED local
    /\ UNCHANGED <<ledger, args, work, pre, post, calls>>

FindCapacity(t) ==
    /\ pc[t] = "find_capacity"
    /\ LET found == find(local[t].collection_attribute_list, "Capacity")
       IN  IF found.some
           THEN /\ local' = [local EXCEPT ![t].capacity_attribute = found.val]
                /\ Goto(t, "parse_capacity")
           ELSE /\ Return(t, "MissingCapacityAttribute")
                /\ UNCHANGED local
    /\ UNCHANGED <<ledger, args, work, pre, post, calls>>

ParseCapacity(t) ==
    /\ pc[t] = "parse_capacity"
    /\ LET parsed == parse_u32(local[t].capacity_attribute.value)
       IN  IF parsed.some
           THEN /\ local' = [local EXCEPT ![t].capacity = parsed.val]
                /\ Goto(t, "require_capacity")
           ELSE /\ Return(t, "NumericalOverflow")
                /\ UNCHANGED local
    /\ UNCHANGED <<ledger, args, work, pre, post, calls>>

RequireCapacity(t) ==
    /\ pc[t] = "require_capacity"
    /\ IF CapacityAvailable(local[t].base.num_minted, local[t].capacity)
       THEN Goto(t, "transfer")
       ELSE Return(t, "MaximumTicketsReached")
    /\ UNCHANGED <<ledger, args, local, work, pre, post, calls>>

\* transfer(CpiContext::new(system_program, Transfer {payer, treasury}), price)?
PaymentTransfer(t) ==
    /\ pc[t] = "transfer"
    /\ LET r == TransferCpi(work[t], args[t])
       IN  /\ work' = [work EXCEPT ![t] = r.work]
           /\ calls' = [calls EXCEPT ![t] =
                           Append(@, [call |-> "transfer", ok |-> r.ok])]
           /\ IF r.ok THEN Goto(t, "attributes")
                      ELSE Return(t, "InsufficientFunds")
    /\ UNCHANGED <<ledger, args, local, pre, post>>

BuildAttributes(t) ==
    /\ pc[t] = "attributes"
    /\ LET number == ticket_number(local[t].base)
       IN  IF number.some
           THEN /\ local' = [local EXCEPT ![t].ticket_plugin =
                      << PluginAuthorityPair(
                           [type |-> "Attributes",
                            attribute_list |->
                               TicketAttributes(number.val, args[t])]) >>]
                /\ Goto(t, "delegates")
           ELSE /\ Return(t, "NumericalOverflow")
                /\ UNCHANGED local
    /\ UNCHANGED <<ledger, args, work, pre, post, calls>>

BuildDelegates(t) ==
    /\ pc[t] = "delegates"
    /\ local' = [local EXCEPT ![t].ticket_plugin =
                    @ \o DelegatePlugins(local[t].collection_attribute_list)]
    /\ Goto(t, "adapter")
    /\ UNCHANGED <<ledger, args, work, pre, post, calls>>

BuildAdapter(t) ==
    /\ pc[t] = "adapter"
    /\ local' = [local EXCEPT ![t].ticket_external_plugin =
                    << AppDataInitInfo(args[t].venue_authority) >>]
    /\ Goto(t, "create")
    /\ UNCHANGED <<ledger, args, work, pre, post, calls>>

\* CreateV2CpiBuilder::new(...)....invoke_signed(signer_seeds)?; Ok(())
InvokeCreate(t) ==
    /\ pc[t] = "create"
    /\ \E rent \in 1..MaxRent, accept \in BOOLEAN :
         LET r == CreateCpi(work[t], t, args[t], local[t], rent, accept)
         IN  /\ work' = [work EXCEPT ![t] = r.work]
             /\ calls' = [calls EXCEPT ![t] =
                             Append(@, [call |-> "create", ok |-> r.ok])]
             /\ Return(t, CreateResult(r.ok))
    /\ UNCHANGED <<ledger, args, local, pre, post>>

\* the handler returned Ok(()): the ledger keeps the transaction's writes;
\* the handler's locals are gone
Commit(t) ==
    /\ pc[t] = "returned"
    /\ result[t] = "Ok"
    /\ ledger' = work[t]
    /\ post' = [post EXCEPT ![t] = work[t]]
    /\ pc' = [pc EXCEPT ![t] = "committed"]
    /\ local' = [local EXCEPT ![t] = NoLocal]
    /\ UNCHANGED <<args, work, pre, result, calls>>

\* the handler returned an error: the ledger discards the writes; of the
\* failed transaction only the payer, the price, the error and the calls
\* made are remembered
Abort(t) ==
    /\ pc[t] = "returned"
    /\ result[t] # "Ok"
    /\ post' = [post EXCEPT ![t] = ledger]
    /\ pc' = [pc EXCEPT ![t] = "failed"]
    /\ local' = [local EXCEPT ![t] = NoLocal]
    /\ work' = [work EXCEPT ![t] = ledger]
    /\ args' = [args EXCEPT ![t] =
                   [NoArgs EXCEPT !.payer = args[t].payer,
                                  !.price = args[t].price]]
    /\ UNCHANGED <<ledger, pre, result, calls>>

Next ==
    \E t \in Txs :
        \/ Begin(t)
        \/ Deserialize(t)
        \/ FetchPlugin(t)
        \/ FindCapacity(t)
        \/ ParseCapacity(t)
        \/ RequireCapacity(t)
        \/ PaymentTransfer(t)
        \/ BuildAttributes(t)
        \/ BuildDelegates(t)
        \/ BuildAdapter(t)
        \/ InvokeCreate(t)
        \/ Commit(t)
        \/ Abort(t)

Spec == Init /\ [][Next]_vars

(***************************************************************************)
(* Properties.                                                             *)
(***************************************************************************)
Finished(t) == pc[t] \in Final
Succeeded(t) == pc[t] = "committed"

\* index of the first attribute of the list with the key, 0 if none
FirstIndex(list, key) ==
    IF \E i \in 1..Len(list) : list[i].key = key
    THEN CHOOSE i \in 1..Len(list) :
            /\ list[i].key = key
            /\ \A j \in 1..(i - 1) : list[j].key # key
    ELSE 0

\* the collection decodes and carries an Attributes plugin
Readable(ev) == ev.valid /\ ev.has_attributes

HasKey(ev, key) == Readable(ev) /\ FirstIndex(ev.attribute_list, key) # 0

ValueOf(ev, key) == ev.attribute_list[FirstIndex(ev.attribute_list, key)].value

\* the Capacity strings that denote a u32, and the number each denotes
WellFormedCapacities ==
    { <<"0">>, <<"1">>, <<"2">>, <<"3">>, <<"0", "2">>, <<"+", "2">>,
      <<"4", "2", "9", "4", "9", "6", "7", "2", "9", "5">> }

CapacityNumber(s) ==
    CASE s = <<"0">> -> U32(0)
      [] s = <<"1">> -> U32(1)
      [] s \in { <<"2">>, <<"0", "2">>, <<"+", "2">> } -> U32(2)
      [] s = <<"3">> -> U32(3)
      [] s = <<"4", "2", "9", "4", "9", "6", "7", "2", "9", "5">> -> U32_MAX

\* the collection the transaction found has a Capacity that parses
CapacityParses(ev) ==
    HasKey(ev, "Capacity") /\ ValueOf(ev, "Capacity") \in WellFormedCapacities

CapacityOf(ev) == CapacityNumber(ValueOf(ev, "Capacity"))

\* C1: when the collection's Capacity parses to C and num_minted >= C,
\* create_ticket fails with MaximumTicketsReached, the buyer's and the
\* treasury's balances are unchanged and no ticket has been minted.
C1_SoldOutRejected ==
    \A t \in Txs :
        ( /\ Finished(t)
          /\ CapacityParses(pre[t].event)
          /\ ~U32Lt(pre[t].event.num_minted, CapacityOf(pre[t].event)) )
        => /\ result[t] = "MaximumTicketsReached"
           /\ post[t].lamports = pre[t].lamports
           /\ post[t].assets = pre[t].assets
           /\ calls[t] = << >>

\* a transaction rejected on a collection with num_minted = Capacity, and
\* one with num_minted above it
C1_Witness ==
    /\ \E t \in Txs :
        /\ Finished(t) /\ result[t] = "MaximumTicketsReached"
        /\ CapacityParses(pre[t].event)
        /\ pre[t].event.num_minted = CapacityOf(pre[t].event)
        /\ args[t].price > 0
        /\ pre[t].lamports[args[t].payer] >= args[t].price

FailurePath(t) ==
    \/ result[t] # "Ok"
    \/ \E i \in 1..Len(calls[t]) : ~calls[t][i].ok

\* C2: on every failure path of create_ticket, the rejection of the
\* asset-creation call after the executed payment included, the committed
\* state after the attempt is the state before it.
C2_AllOrNothing ==
    \A t \in Txs :
        (Finished(t) /\ FailurePath(t)) => post[t] = pre[t]

\* the asset-creation call rejected after a payment of a positive price
C2_Witness ==
    \E t \in Txs :
        /\ pc[t] = "failed" /\ result[t] = "CreateError"
        /\ args[t].price > 0
        /\ calls[t] = << [call |-> "transfer", ok |-> TRUE],
                         [call |-> "create", ok |-> FALSE] >>
        /\ post[t] = pre[t]

\* the ticket a successful transaction created
TicketOf(t) == CHOOSE x \in post[t].assets : x.key = t

\* C3 as stated: after a successful issuance the treasury holds price
\* more and the payer exactly price less.
C3_ExactlyPrice ==
    \A t \in Txs :
        Succeeded(t) =>
            /\ post[t].lamports[Treasury] = pre[t].lamports[Treasury] + args[t].price
            /\ post[t].lamports[args[t].payer] =
                  pre[t].lamports[args[t].payer] - args[t].price

\* C3 amended: after a successful issuance the treasury holds exactly price
\* more, and the payer price less and the rent of the new ticket account
\* less, which the asset-creation call takes from the payer.
C3_PricePlusRent ==
    \A t \in Txs :
        Succeeded(t) =>
            /\ post[t].lamports[Treasury] = pre[t].lamports[Treasury] + args[t].price
            /\ post[t].lamports[args[t].payer] =
                  pre[t].lamports[args[t].payer] - args[t].price
                                                 - TicketOf(t).lamports
            /\ TicketOf(t).lamports >= 1

C3_Witness ==
    \E t \in Txs :
        /\ Succeeded(t)
        /\ args[t].price = 500
        /\ post[t].lamports[Treasury] = pre[t].lamports[Treasury] + 500

\* the decimal form of the ticket numbers that occur
NumberString(n) ==
    CASE n = U32(1) -> <<"1">>
      [] n = U32(2) -> <<"2">>
      [] n = U32(3) -> <<"3">>
      [] n = U32_MAX -> <<"4", "2", "9", "4", "9", "6", "7", "2", "9", "5">>

PluginsOfType(ticket, type) ==
    SelectSeq(ticket.plugins, LAMBDA p : p.plugin.type = type)

AttributesOf(ticket) ==
    PluginsOfType(ticket, "Attributes")[1].plugin.attribute_list

\* exactly one slot is left on the collection
OneSlotLeft(ev) ==
    /\ CapacityParses(ev)
    /\ ev.num_minted # U32_MAX
    /\ checked_add_1(ev.num_minted).val = CapacityOf(ev)

\* C4 as stated: with num_minted = Capacity - 1 the issuance succeeds and
\* the ticket's Ticket Number is Capacity.
C4_LastSlotSucceeds ==
    \A t \in Txs :
        (Finished(t) /\ OneSlotLeft(pre[t].event)) =>
            /\ Succeeded(t)
            /\ AttributesOf(TicketOf(t))[1] =
                  Attribute("Ticket Number", NumberString(CapacityOf(pre[t].event)))

\* C4 amended: with num_minted = Capacity - 1 the issuance passes the
\* capacity check and fails only if the payment transfer or the
\* asset-creation call fails; when it succeeds the Ticket Number is
\* Capacity.  The Ticket Number of every created ticket is the num_minted
\* read at the start of the operation plus 1.
C4_TicketNumber ==
    \A t \in Txs :
        /\ (Finished(t) /\ OneSlotLeft(pre[t].event)) =>
              /\ result[t] \in {"Ok", "InsufficientFunds", "CreateError"}
              /\ Succeeded(t) =>
                    AttributesOf(TicketOf(t))[1] =
                       Attribute("Ticket Number",
                                 NumberString(CapacityOf(pre[t].event)))
        /\ Succeeded(t) =>
              /\ pre[t].event.num_minted # U32_MAX
              /\ AttributesOf(TicketOf(t))[1] =
                    Attribute("Ticket Number",
                       NumberString(checked_add_1(pre[t].event.num_minted).val))

\* the last slot of a collection of capacity 2 issued as ticket 2, and the
\* last slot of the u32 range issued as ticket 4294967295
C4_Witness ==
    \E t \in Txs :
        /\ Succeeded(t)
        /\ OneSlotLeft(pre[t].event)
        /\ AttributesOf(TicketOf(t))[1].value = <<"2">>

\* C5 as stated: of two transactions on a collection with one slot left at
\* most one succeeds, the other fails with MaximumTicketsReached and moves
\* no funds, and no two transactions run interleaved.
C5_LoserSoldOut ==
    /\ \A t, u \in Txs : (t # u /\ Running(t)) => ~Running(u)
    /\ \A t, u \in Txs :
        (t < u /\ Finished(t) /\ Finished(u) /\ OneSlotLeft(pre[t].event)) =>
            /\ ~(Succeeded(t) /\ Succeeded(u))
            /\ Succeeded(t) =>
                  (result[u] = "MaximumTicketsReached" /\ post[u] = pre[u])
            /\ Succeeded(u) =>
                  (result[t] = "MaximumTicketsReached" /\ post[t] = pre[t])

\* C5 amended: of two transactions on a collection with one slot left at
\* most one succeeds and no two run interleaved; when one succeeds, the
\* other moves no funds, and it fails with MaximumTicketsReached if the
\* ledger ran it after the successful one (run before it, it failed for a
\* reason of its own).
C5_Serialized ==
    /\ \A t, u \in Txs : (t # u /\ Running(t)) => ~Running(u)
    /\ \A t, u \in Txs :
        (t < u /\ Finished(t) /\ Finished(u) /\ OneSlotLeft(pre[t].event)) =>
            /\ ~(Succeeded(t) /\ Succeeded(u))
            /\ Succeeded(t) =>
                  (result[u] = "MaximumTicketsReached" /\ post[u] = pre[u])
            /\ Succeeded(u) =>
                  (result[t] # "Ok" /\ post[t] = pre[t])

\* two transactions of a buyer with funds on the last slot: the first
\* succeeded, the second was rejected
C5_Witness ==
    \E t, u \in Txs :
        /\ t < u
        /\ OneSlotLeft(pre[t].event)
        /\ Succeeded(t)
        /\ pc[u] = "failed" /\ result[u] = "MaximumTicketsReached"
        /\ args[u].price > 0
        /\ pre[u].lamports[args[u].payer] > args[u].price

\* the spellings of "true" under case-insensitive comparison
AnyCaseTrue ==
    { <<a, b, c, d>> : a \in {"t", "T"}, b \in {"r", "R"},
                      c \in {"u", "U"}, d \in {"e", "E"} }

Transferable(ev) ==
    /\ HasKey(ev, "IsTicketTransferable")
    /\ ValueOf(ev, "IsTicketTransferable") \in AnyCaseTrue

FreezeOf(ticket) == PluginsOfType(ticket, "PermanentFreezeDelegate")

\* C6: every created ticket has frozen = NOT is_transferable, where
\* is_transferable holds exactly when the collection's IsTicketTransferable
\* attribute equals "true" ignoring case; absent or otherwise, frozen.
C6_FrozenUnlessTransferable ==
    \A t \in Txs :
        Succeeded(t) =>
            /\ Len(FreezeOf(TicketOf(t))) = 1
            /\ FreezeOf(TicketOf(t))[1].plugin.frozen = ~Transferable(pre[t].event)

\* a ticket left unfrozen by the value "TRUE"
C6_Witness ==
    \E t \in Txs :
        /\ Succeeded(t)
        /\ HasKey(pre[t].event, "IsTicketTransferable")
        /\ ValueOf(pre[t].event, "IsTicketTransferable") = <<"T", "R", "U", "E">>
        /\ FreezeOf(TicketOf(t))[1].plugin.frozen = FALSE

ExpectedKeys(a) ==
    << "Ticket Number", "Price" >>
    \o (IF a.row.some THEN << "Row" >> ELSE << >>)
    \o (IF a.seat.some THEN << "Seat" >> ELSE << >>)
    \o (IF a.screen.some THEN << "Screen" >> ELSE << >>)

KeysOf(list) == [i \in 1..Len(list) |-> list[i].key]

\* C7 as stated: the attributes of a created ticket are Ticket Number,
\* Price, then Row, Seat, Screen for the arguments supplied, in that order,
\* and no attribute has an empty value.
C7_NoEmptyValue ==
    \A t \in Txs :
        Succeeded(t) =>
            LET list == AttributesOf(TicketOf(t))
            IN  /\ KeysOf(list) = ExpectedKeys(args[t])
                /\ \A i \in 1..Len(list) : list[i].value # << >>

\* C7 amended: the attributes of a created ticket are Ticket Number,
\* Price, then Row, Seat, Screen for the arguments supplied, in that order;
\* an omitted argument yields no attribute, and a supplied one yields an
\* attribute with the supplied string, which is empty only when the caller
\* supplied the empty string.
C7_AttributeOrder ==
    \A t \in Txs :
        Succeeded(t) =>
            LET list == AttributesOf(TicketOf(t))
                a == args[t]
            IN  /\ KeysOf(list) = ExpectedKeys(a)
                /\ \A i \in 1..Len(list) :
                      /\ list[i].key = "Row" => list[i].value = a.row.val
                      /\ list[i].key = "Seat" => list[i].value = a.seat.val
                      /\ list[i].key = "Screen" => list[i].value = a.screen.val
                      /\ list[i].value = << >> =>
                            \/ list[i].key = "Row" /\ a.row = Some(<< >>)
                            \/ list[i].key = "Seat" /\ a.seat = Some(<< >>)
                            \/ list[i].key = "Screen" /\ a.screen = Some(<< >>)

\* a ticket with row and seat supplied and screen omitted
C7_Witness ==
    \E t \in Txs :
        /\ Succeeded(t)
        /\ args[t].row.some /\ args[t].seat.some /\ ~args[t].screen.some
        /\ KeysOf(AttributesOf(TicketOf(t))) =
              << "Ticket Number", "Price", "Row", "Seat" >>

UnderUpdateAuthority(p) == p.authority = Some("UpdateAuthority")

\* C8: every created ticket carries the permanent burn delegate and the
\* permanent transfer delegate exactly once each whatever the collection's
\* transferability, neither with any content of the collection's, and the
\* three delegates are under the update authority.
C8_BurnAndTransferAlways ==
    \A t \in Txs :
        Succeeded(t) =>
            LET ticket == TicketOf(t)
            IN  /\ PluginsOfType(ticket, "PermanentBurnDelegate") =
                      << [plugin |-> [type |-> "PermanentBurnDelegate"],
                          authority |-> Some("UpdateAuthority")] >>
                /\ PluginsOfType(ticket, "PermanentTransferDelegate") =
                      << [plugin |-> [type |-> "PermanentTransferDelegate"],
                          authority |-> Some("UpdateAuthority")] >>
                /\ Len(FreezeOf(ticket)) = 1
                /\ UnderUpdateAuthority(FreezeOf(ticket)[1])

\* a frozen ticket that carries both delegates
C8_Witness ==
    \E t \in Txs :
        /\ Succeeded(t)
        /\ ~Transferable(pre[t].event)
        /\ Len(PluginsOfType(TicketOf(t), "PermanentBurnDelegate")) = 1
        /\ Len(PluginsOfType(TicketOf(t), "PermanentTransferDelegate")) = 1

\* Capacity strings that are no u32
MalformedCapacities ==
    { << >>, <<"x">>, <<"-", "1">>, <<"2", " ">>, <<"+">>,
      <<"4", "2", "9", "4", "9", "6", "7", "2", "9", "6">> }

NothingMoved(t) ==
    /\ post[t] = pre[t]
    /\ calls[t] = << >>

\* C9: without a Capacity key create_ticket fails with
\* MissingCapacityAttribute, with a Capacity that is no unsigned integer it
\* fails with NumericalOverflow; either way nothing is paid and no ticket
\* is created, whatever num_minted and the buyer's balance are.
C9_CapacityErrors ==
    \A t \in Txs :
        (Finished(t) /\ Readable(pre[t].event)) =>
            /\ ~HasKey(pre[t].event, "Capacity") =>
                  (result[t] = "MissingCapacityAttribute" /\ NothingMoved(t))
            /\ ( /\ HasKey(pre[t].event, "Capacity")
                 /\ ValueOf(pre[t].event, "Capacity") \in MalformedCapacities ) =>
                  (result[t] = "NumericalOverflow" /\ NothingMoved(t))

\* a transaction rejected for the Capacity "-1"
C9_Witness ==
    \E t \in Txs :
        /\ Finished(t) /\ result[t] = "NumericalOverflow"
        /\ ValueOf(pre[t].event, "Capacity") = <<"-", "1">>
        /\ NothingMoved(t)

\* C10: when the capacity check passes and the buyer holds less than
\* price, create_ticket fails with the transfer primitive's error, the
\* asset-creation call is not made, and the balances and num_minted stay.
C10_InsufficientFunds ==
    \A t \in Txs :
        ( /\ Finished(t)
          /\ CapacityParses(pre[t].event)
          /\ U32Lt(pre[t].event.num_minted, CapacityOf(pre[t].event))
          /\ pre[t].lamports[args[t].payer] < args[t].price ) =>
            /\ result[t] = "InsufficientFunds"
            /\ calls[t] = << [call |-> "transfer", ok |-> FALSE] >>
            /\ post[t] = pre[t]

C10_Witness ==
    \E t \in Txs :
        /\ pc[t] = "failed" /\ result[t] = "InsufficientFunds"
        /\ args[t].payer = "bob" /\ args[t].price = 7
        /\ post[t].lamports = pre[t].lamports

TransferOk == [call |-> "transfer", ok |-> TRUE]
TransferFailed == [call |-> "transfer", ok |-> FALSE]
CreateOk == [call |-> "create", ok |-> TRUE]
CreateFailed == [call |-> "create", ok |-> FALSE]

CapacityCheckPassed(t) ==
    /\ CapacityParses(pre[t].event)
    /\ U32Lt(pre[t].event.num_minted, CapacityOf(pre[t].event))

\* C11: within one issuance the payment transfer is executed only after
\* the capacity check has passed, the attribute list, the delegates and the
\* adapter are built after the transfer and before the asset-creation call,
\* the asset-creation call is issued only after the transfer has succeeded,
\* and there is at most one transfer and at most one asset-creation call.
C11_StageOrder ==
    \A t \in Txs :
        /\ calls[t] \in { << >>, << TransferOk >>, << TransferFailed >>,
                          << TransferOk, CreateOk >>,
                          << TransferOk, CreateFailed >> }
        /\ calls[t] # << >> => CapacityCheckPassed(t)
        /\ pc[t] \in {"pending", "deserialize", "fetch_plugin", "find_capacity",
                      "parse_capacity", "require_capacity", "transfer"}
              => (calls[t] = << >> /\ local[t].ticket_plugin = << >>)
        /\ pc[t] \in {"attributes", "delegates", "adapter", "create"}
              => calls[t] = << TransferOk >>
        /\ pc[t] = "create"
              => /\ Len(local[t].ticket_plugin) = 4
                 /\ Len(local[t].ticket_external_plugin) = 1
        /\ result[t] = "Ok" => calls[t] = << TransferOk, CreateOk >>

\* an issuance of a positive price that made both calls, in order
C11_Witness ==
    \E t \in Txs :
        /\ Succeeded(t)
        /\ args[t].price > 0
        /\ calls[t] = << TransferOk, CreateOk >>
        /\ CapacityCheckPassed(t)

AdaptersOf(ticket) == ticket.external_plugin_adapters

\* C12: every created ticket carries exactly one external metadata
\* adapter, with the update authority as initial control authority, the
\* caller's venue_authority as data-write authority and the binary schema,
\* and the adapter holds no data.
C12_VenueAdapter ==
    \A t \in Txs :
        Succeeded(t) =>
            AdaptersOf(TicketOf(t)) =
                << [info |-> [type |-> "AppData",
                              init_plugin_authority |-> Some("UpdateAuthority"),
                              data_authority |->
                                 [type |-> "Address",
                                  address |-> args[t].venue_authority],
                              schema |-> Some("Binary")],
                    data |-> << >>] >>

\* a ticket whose adapter is writable by "venue2"
C12_Witness ==
    \E t \in Txs :
        /\ Succeeded(t)
        /\ args[t].venue_authority = "venue2"
        /\ Len(AdaptersOf(TicketOf(t))) = 1
        /\ AdaptersOf(TicketOf(t))[1].info.data_authority.address = "venue2"

\* the ledger before the first transaction
InitialLedger == pre[1]

U32LtEq(a, b) == ~U32Lt(b, a)

RECURSIVE U32Plus(_, _)
U32Plus(v, k) == IF k = 0 THEN v ELSE U32Plus(checked_add_1(v).val, k - 1)

\* C13: for a collection of fixed Capacity C that starts with
\* num_minted <= C, num_minted <= C in every state, no more than C tickets
\* are ever created, and every attempt that finds num_minted = C is
\* rejected without effect.
C13_CapacityNeverExceeded ==
    ( /\ CapacityParses(InitialLedger.event)
      /\ U32LtEq(InitialLedger.event.num_minted, CapacityOf(InitialLedger.event)) )
    => LET C == CapacityOf(InitialLedger.event)
       IN  /\ CapacityParses(ledger.event) /\ CapacityOf(ledger.event) = C
           /\ U32LtEq(ledger.event.num_minted, C)
           /\ \A t \in Txs : U32LtEq(work[t].event.num_minted, C)
           /\ U32LtEq(U32(Cardinality(ledger.assets)), C)
           /\ \A t \in Txs :
                 (Finished(t) /\ pre[t].event.num_minted = C) =>
                    /\ result[t] = "MaximumTicketsReached"
                    /\ post[t] = pre[t]

\* a collection filled by an issuance, and the next attempt rejected
C13_Witness ==
    \E t, u \in Txs :
        /\ CapacityParses(ledger.event)
        /\ InitialLedger.event.num_minted # CapacityOf(ledger.event)
        /\ ledger.event.num_minted = CapacityOf(ledger.event)
        /\ Succeeded(t)
        /\ pc[u] = "failed"
        /\ pre[u].event.num_minted = CapacityOf(ledger.event)
        /\ Cardinality(ledger.assets) = 1

TicketNumberOf(ticket) == AttributesOf(ticket)[1].value

\* C14: the Ticket Numbers of the tickets created on a collection are
\* pairwise distinct and are the consecutive numbers from the initial
\* num_minted + 1 on; num_minted has advanced by the number of tickets, so
\* a failed attempt takes no number.
C14_ConsecutiveNumbers ==
    LET n == Cardinality(ledger.assets)
        first == InitialLedger.event.num_minted
    IN  /\ \A x \in ledger.assets : AttributesOf(x)[1].key = "Ticket Number"
        /\ \A x, y \in ledger.assets :
              TicketNumberOf(x) = TicketNumberOf(y) => x = y
        /\ { TicketNumberOf(x) : x \in ledger.assets } =
              { NumberString(U32Plus(first, k)) : k \in 1..n }
        /\ ledger.event.num_minted = U32Plus(first, n)

\* two tickets on one collection, numbered 1 and 2
C14_Witness ==
    /\ Cardinality(ledger.assets) = 2
    /\ { TicketNumberOf(x) : x \in ledger.assets } = { <<"1">>, <<"2">> }

\* the sum of the prices of the successful ones among transactions 1..k
RECURSIVE PaidUpTo(_)
PaidUpTo(k) ==
    IF k = 0 THEN 0
    ELSE (IF Succeeded(k) THEN args[k].price ELSE 0) + PaidUpTo(k - 1)

TreasuryIsInitialPlusPaid ==
    ledger.lamports[Treasury] = InitialLedger.lamports[Treasury] + PaidUpTo(NumTx)

\* C15 as stated: the treasury holds its initial balance plus the prices of
\* the successful issuances, and an issuance with price 0 succeeds when the
\* capacity permits, leaving the treasury balance as it was.
C15_FreeTicketSucceeds ==
    /\ TreasuryIsInitialPlusPaid
    /\ \A t \in Txs :
          (Finished(t) /\ CapacityCheckPassed(t) /\ args[t].price = 0) =>
              /\ Succeeded(t)
              /\ post[t].lamports[Treasury] = pre[t].lamports[Treasury]

\* C15 amended: the treasury holds its initial balance plus the prices of
\* the successful issuances, failed attempts adding nothing; an issuance
\* with price 0 passes the payment transfer when the capacity permits and
\* fails only if the asset-creation call is rejected, and it leaves the
\* treasury balance as it was.
C15_TreasurySum ==
    /\ TreasuryIsInitialPlusPaid
    /\ \A t \in Txs :
          (Finished(t) /\ CapacityCheckPassed(t) /\ args[t].price = 0) =>
              /\ result[t] \in {"Ok", "CreateError"}
              /\ calls[t][1] = TransferOk
              /\ post[t].lamports[Treasury] = pre[t].lamports[Treasury]
    /\ \A t \in Txs :
          pc[t] = "failed" => post[t].lamports[Treasury] = pre[t].lamports[Treasury]

\* a free ticket issued and a paid attempt failed: the treasury is where it
\* started
C15_Witness ==
    \E t, u \in Txs :
        /\ Succeeded(t) /\ args[t].price = 0
        /\ pc[u] = "failed" /\ args[u].price > 0
        /\ calls[u] # << >>
        /\ ledger.lamports[Treasury] = InitialLedger.lamports[Treasury]

\* C16: whenever create_ticket reaches the ticket-number computation,
\* num_minted + 1 is within the u32 range, since num_minted < capacity <=
\* u32::MAX was established; NumericalOverflow comes from capacity parsing
\* only, before any payment.
C16_IncrementInRange ==
    \A t \in Txs :
        /\ pc[t] \in {"transfer", "attributes"} =>
              /\ local[t].base.num_minted # U32_MAX
              /\ U32Lt(local[t].base.num_minted, local[t].capacity)
              /\ checked_add_1(local[t].base.num_minted).some
        /\ result[t] = "NumericalOverflow" =>
              /\ calls[t] = << >>
              /\ HasKey(pre[t].event, "Capacity")
              /\ ValueOf(pre[t].event, "Capacity") \in MalformedCapacities

\* the ticket-number computation reached with num_minted = u32::MAX - 1
C16_Witness ==
    \E t \in Txs :
        /\ pc[t] = "attributes"
        /\ local[t].base.num_minted = <<LimbBase - 1, LimbBase - 2>>
        /\ local[t].capacity = U32_MAX

\* the outcome the order of the stages gives an attempt: the error of the
\* first stage whose failure condition holds
ExpectedResults(t) ==
    LET ev == pre[t].event
    IN  IF ~ev.valid THEN {"DeserializeError"}
        ELSE IF ~ev.has_attributes THEN {"PluginNotFound"}
        ELSE IF ~HasKey(ev, "Capacity") THEN {"MissingCapacityAttribute"}
        ELSE IF ValueOf(ev, "Capacity") \in MalformedCapacities
             THEN {"NumericalOverflow"}
        ELSE IF ~U32Lt(ev.num_minted, CapacityOf(ev))
             THEN {"MaximumTicketsReached"}
        ELSE IF pre[t].lamports[args[t].payer] < args[t].price
             THEN {"InsufficientFunds"}
        ELSE {"Ok", "CreateError"}

\* C17: when several failure conditions hold at once the error reported is
\* that of the earliest stage: MissingCapacityAttribute whatever
\* num_minted is, NumericalOverflow before any capacity comparison, and
\* MaximumTicketsReached rather than the ledger's insufficient-funds error.
C17_ErrorPrecedence ==
    \A t \in Txs : Finished(t) => result[t] \in ExpectedResults(t)

\* an attempt of a buyer short of funds on a sold-out collection,
\* rejected for the capacity
C17_Witness ==
    \E t \in Txs :
        /\ pc[t] = "failed" /\ result[t] = "MaximumTicketsReached"
        /\ pre[t].lamports[args[t].payer] < args[t].price
        /\ calls[t] = << >>

\* what an issuance never writes
SameRecords(a, b) ==
    /\ a.manager = b.manager
    /\ a.marketplace = b.marketplace
    /\ a.event.valid = b.event.valid
    /\ a.event.has_attributes = b.event.has_attributes
    /\ a.event.attribute_list = b.event.attribute_list

\* C18: no attempt changes the Manager record, the Marketplace record or
\* the collection's attributes; a failed attempt changes nothing, and a
\* successful one changes only the payer's balance, the treasury's balance,
\* num_minted (by exactly one) and the assets, by one new ticket owned by
\* the payer.
C18_Frame ==
    /\ SameRecords(ledger, InitialLedger)
    /\ \A t \in Txs : SameRecords(work[t], InitialLedger)
    /\ \A t \in Txs : pc[t] = "failed" => post[t] = pre[t]
    /\ \A t \in Txs :
          Succeeded(t) =>
              /\ SameRecords(post[t], pre[t])
              /\ \A a \in Accounts \ {args[t].payer, Treasury} :
                    post[t].lamports[a] = pre[t].lamports[a]
              /\ pre[t].event.num_minted # U32_MAX
              /\ post[t].event.num_minted = checked_add_1(pre[t].event.num_minted).val
              /\ \E x \in post[t].assets :
                    /\ x \notin pre[t].assets
                    /\ x.owner = args[t].payer
                    /\ x.collection = "event"
                    /\ post[t].assets = pre[t].assets \cup {x}

\* a second ticket added to a collection that already holds one, with the
\* other buyer's balance untouched
C18_Witness ==
    \E t \in Txs :
        /\ Succeeded(t)
        /\ Cardinality(pre[t].assets) = 1
        /\ Cardinality(post[t].assets) = 2
        /\ post[t].lamports["bob"] = pre[t].lamports["bob"]
        /\ args[t].payer = "alice"
====
